---- MODULE Spec2Model ----
(***************************************************************************)
(* Model of the execution core of pre-commit (goodspark fork):             *)
(*   - pre_commit/xargs.py   : partition(), xargs() dispatcher             *)
(*   - pre_commit/output.py  : stdout_lock, write_b, write_line_b,         *)
(*                             paused_stdout                               *)
(*   - pre_commit/editor.py  : run_concurrently                            *)
(*                                                                         *)
(* A Python str is modelled as a sequence of code points; a code point is  *)
(* a one-token string ("a", "U+00E9", ...).  bytes are sequences of tokens.*)
(***************************************************************************)
EXTENDS Integers, Sequences, FiniteSets, TLC

VARIABLES
    \* ---- partition() call (xargs.py:80-121)
    p_pc,          \* "call" | "returned" | "raised"
    p_in,          \* the arguments of the call
    p_out,         \* the value returned / the argument raised
    p_closed,      \* partitions already closed (`ret`) when the call ended
    \* ---- xargs() call (xargs.py:170-258)
    x_pc,          \* "call" | "mapping" | "returned" | "raised"
    x_in,          \* the arguments of the call
    x_cmd,         \* cmd after parse_shebang.normalize_cmd
    x_partitions,  \* partitions
    x_threads,     \* threads = min(len(partitions), target_concurrency)
    x_task,        \* per partition: "pending" | "running" | "done"
    x_argv,        \* per partition: argv its subprocess was started with
    x_out,         \* per partition: output of run_cmd_partition so far
    x_rc,          \* per partition: returncode of run_cmd_partition
    x_next,        \* number of results the `for` loop has consumed, plus 1
    x_retcode,     \* retcode
    x_stdout,      \* stdout
    x_seen,        \* the returncodes consumed so far, in the order consumed
    x_completion,  \* the partitions in the order their subprocess finished
    \* ---- output synchronizer (output.py)
    o_lock,        \* stdout_lock: "free" or the thread holding it
    sys_stdout,    \* what sys.stdout is bound to: "real" | "buffer"
    o_real,        \* what has been written to the real stream, in order
    o_buffer,      \* contents of the BytesIO behind redirected_output
    o_logfile,     \* what has been appended to the log file
    o_block,       \* <<first, last>> position in o_real of the flushed buffer
    s_pc,          \* paused_stdout: "none" | "active" | "closing" | "ended" | "abandoned"
    s_step,        \* number of steps of the scope's exit already executed
    s_closer,      \* the thread executing the scope's exit
    w_pc,          \* per writer thread: position inside its write call
    w_op,          \* per writer thread: the call it is executing
    w_stream,      \* per writer thread: the local variable `stream`
    w_done,        \* per writer thread: number of finished calls
    \* ---- run_concurrently (editor.py:44-62)
    e_main,        \* position of the calling thread inside run_concurrently
    e_editor,      \* position of the launch_editor task
    e_work,        \* position of the task running fun(*args)
    e_draft,       \* COMMIT_MESSAGE_DRAFT_PATH: NoFile or its lines
    e_template,    \* commit_message_template
    e_exit,        \* exit status of the editor process: <<>> before it ends, then <<status>>
    e_records,     \* monitor.records
    e_outcome,     \* how run_concurrently ended: "none" | "value" | "exception"
    \* ---- editor eligibility and draft clean-up (editor.py:35-41, 65-164)
    d_pc,          \* position inside one hook invocation, or of a single probe
    d_in,          \* what the invocation finds: stage, editor, parent, platform
    d_run,         \* outcome of should_run_concurrently(hook_stage)
    d_clean,       \* outcome of should_clean_draft(hook_stage)
    d_draft,       \* COMMIT_MESSAGE_DRAFT_PATH: NoFile or its lines
    d_expired,     \* COMMIT_MESSAGE_EXPIRED_DRAFT_PATH: NoFile or its lines
    d_did,         \* what the last invocation did
    d_count,       \* number of invocations finished
    d_parent,      \* psutil.Process().parent() as a single probe finds it
    d_open,        \* outcome of that probe's _should_open_editor()
    \* ---- stream_subprocess_output (xargs.py:135-167)
    g_pc,          \* position of the generator: "poll" | "select" | "read" | "finally" | "finished"
    g_done,        \* process_done
    g_items,       \* the (chunk, returncode) items yielded so far
    g_proc,        \* the subprocess: "open" | "closed" (its output) | "exited"
    g_pipe,        \* bytes written to the pipe and not yet read
    g_written,     \* every byte the subprocess has written, in order
    g_rc           \* exit code of the subprocess: <<>> while it runs, then <<code>>

pvars == <<p_pc, p_in, p_out, p_closed>>
xvars == <<x_pc, x_in, x_cmd, x_partitions, x_threads, x_task, x_argv, x_out,
           x_rc, x_next, x_retcode, x_stdout, x_seen, x_completion>>
ovars == <<o_lock, sys_stdout, o_real, o_buffer, o_logfile, o_block,
           s_pc, s_step, s_closer, w_pc, w_op, w_stream, w_done>>
evars == <<e_main, e_editor, e_work, e_draft, e_template, e_exit, e_records,
           e_outcome>>
dvars == <<d_pc, d_in, d_run, d_clean, d_draft, d_expired, d_did, d_count,
           d_parent, d_open>>
gvars == <<g_pc, g_done, g_items, g_proc, g_pipe, g_written, g_rc>>
vars == <<pvars, xvars, ovars, evars, dvars, gvars>>

-----------------------------------------------------------------------------
(* Bounds of the model *)
MaxVarargs == 5
MaxConcurrency == 2
MaxLength == 12
MaxJobs == 3
MaxChunks == 1
MaxWrites == 2
MaxCommitArgs == 3
MaxInvocations == 3
MaxBytes == 3
ChunkSize == 2

-----------------------------------------------------------------------------
(* Strings and their encoded length *)

Max(a, b) == IF a >= b THEN a ELSE b
Min(a, b) == IF a <= b THEN a ELSE b
Abs(a) == IF a < 0 THEN 0 - a ELSE a

RECURSIVE SumSeq(_)
SumSeq(s) == IF s = <<>> THEN 0 ELSE s[1] + SumSeq(Tail(s))

RECURSIVE Concat(_)
Concat(ss) == IF ss = <<>> THEN <<>> ELSE ss[1] \o Concat(Tail(ss))

\* number of bytes of one code point in UTF-8 (the POSIX filesystem encoding)
Utf8Bytes(c) ==
    CASE c = "U+00E9"  -> 2
      [] c = "U+1F600" -> 4
      [] OTHER         -> 1

\* number of bytes of one code point in UTF-16-LE (surrogate pair above the BMP)
Utf16leBytes(c) == IF c = "U+1F600" THEN 4 ELSE 2

\* ' '.join(cmd)
RECURSIVE Join(_)
Join(strs) ==
    IF strs = <<>> THEN <<>>
    ELSE IF Len(strs) = 1 THEN strs[1]
    ELSE strs[1] \o <<" ">> \o Join(Tail(strs))

\* len(full_cmd.encode(...)) per platform
EncodedLen(s, platform) ==
    IF platform = "win32"
    THEN SumSeq([i \in 1..Len(s) |-> Utf16leBytes(s[i])]) \div 2
    ELSE SumSeq([i \in 1..Len(s) |-> Utf8Bytes(s[i])])

command_length(cmd, platform) == EncodedLen(Join(cmd), platform)

\* math.ceil(a / b) for a >= 0, b >= 1
Ceil(a, b) == (a + b - 1) \div b

\* _get_platform_max_length(): the value used when _max_length is not given
get_platform_max_length(platform) ==
    IF platform = "win32" THEN 30720 ELSE 4096

ReversedIdentity(s) == s
\* list(reversed(varargs))
Reversed(s) == [i \in 1..Len(s) |-> s[Len(s) + 1 - i]]

-----------------------------------------------------------------------------
(* partition() *)

max_args_off(n, target_concurrency) == Max(5, Ceil(n, target_concurrency))
max_args_of(n, target_concurrency) == Max(4, Ceil(n, target_concurrency))

fits_off_by_one(total_length, arg_length, max_length, n_ret_cmd, max_args) ==
    /\ total_length + arg_length <= max_length + 1
    /\ n_ret_cmd < max_args
\* the condition of the `if` at xargs.py:104-107
fits(total_length, arg_length, max_length, n_ret_cmd, max_args) ==
    /\ total_length + arg_length <= max_length
    /\ n_ret_cmd < max_args

\* the while loop; `stack` is the reversed varargs list, popped from its end
RECURSIVE partition_loop(_, _, _, _, _, _, _, _)
partition_loop(cmd, stack, ret_cmd, total_length, ret, max_args, max_length, platform) ==
    IF stack = <<>>
    THEN [raised |-> FALSE, arg |-> <<>>, ret |-> Append(ret, cmd \o ret_cmd)]
    ELSE LET arg == stack[Len(stack)]
             rest == SubSeq(stack, 1, Len(stack) - 1)
             arg_length == command_length(<<arg>>, platform) + 1
         IN IF fits(total_length, arg_length, max_length, Len(ret_cmd), max_args)
            THEN partition_loop(cmd, rest, Append(ret_cmd, arg),
                                total_length + arg_length, ret,
                                max_args, max_length, platform)
            ELSE IF ret_cmd = <<>>
            THEN [raised |-> TRUE, arg |-> arg, ret |-> ret]
            ELSE partition_loop(cmd, Append(rest, arg), <<>>,
                                command_length(cmd, platform) + 1,
                                Append(ret, cmd \o ret_cmd),
                                max_args, max_length, platform)

\* _max_length = _max_length or _get_platform_max_length()   (0 stands for None)
effective_max_length(max_length, platform) ==
    IF max_length = 0 THEN get_platform_max_length(platform) ELSE max_length

partition(cmd, varargs, target_concurrency, max_length, platform) ==
    partition_loop(cmd, Reversed(varargs), <<>>,
                   command_length(cmd, platform) + 1, <<>>,
                   max_args_of(Len(varargs), target_concurrency),
                   effective_max_length(max_length, platform), platform)

-----------------------------------------------------------------------------
(* Inputs of the partition() specification *)

Echo == <<"e", "c", "h", "o">>

Prefixes == { <<Echo>>, << <<"x">>, <<"U+00E9">> >> }

ArgPool == { <<"a">>, <<"b", "c", "d">>, <<"U+1F600">> }

RECURSIVE SeqsUpTo(_, _)
SeqsUpTo(S, n) ==
    IF n = 0 THEN { <<>> }
    ELSE LET shorter == SeqsUpTo(S, n - 1)
         IN shorter \cup { Append(s, x) : s \in { t \in shorter : Len(t) = n - 1 }, x \in S }

Platforms == {"posix", "win32"}

\* the worked example of the specification, section 8
ExampleInput ==
    [cmd |-> <<Echo>>,
     varargs |-> << <<"a">>, <<"b">>, <<"c">>, <<"d">>, <<"e">> >>,
     target_concurrency |-> 2, max_length |-> 1000, platform |-> "posix"]

PartitionInputs ==
    [cmd : Prefixes, varargs : SeqsUpTo(ArgPool, MaxVarargs),
     target_concurrency : 1..MaxConcurrency,
     max_length : 0..MaxLength, platform : Platforms]
    \cup {ExampleInput}

\* no partition() call is modelled on its own
PartitionIdle ==
    /\ p_pc = "idle"
    /\ p_in = <<>>
    /\ p_out = <<>>
    /\ p_closed = <<>>

\* no xargs() call is modelled
XargsIdle ==
    /\ x_pc = "idle"
    /\ x_in = <<>>
    /\ x_cmd = <<>>
    /\ x_partitions = <<>>
    /\ x_threads = 0
    /\ x_task = <<>>
    /\ x_argv = <<>>
    /\ x_out = <<>>
    /\ x_rc = <<>>
    /\ x_next = 1
    /\ x_retcode = 0
    /\ x_stdout = <<>>
    /\ x_seen = <<>>
    /\ x_completion = <<>>

Writers == {"w1", "w2"}

\* what w_op holds while the thread is in no write call
NoCall == [kind |-> "none", text |-> FALSE, log |-> FALSE, inscope |-> FALSE]

\* a path at which Path.exists() is false; the text of a file that exists has
\* at least one line
NoFile == <<>>

\* no thread writes and no paused scope exists
OutputIdle ==
    /\ o_lock = "free"
    /\ sys_stdout = "real"
    /\ o_real = <<>>
    /\ o_buffer = <<>>
    /\ o_logfile = <<>>
    /\ o_block = <<>>
    /\ s_pc = "none"
    /\ s_step = 0
    /\ s_closer = "nobody"
    /\ w_pc = [w \in Writers |-> "idle"]
    /\ w_op = [w \in Writers |-> NoCall]
    /\ w_stream = [w \in Writers |-> "unset"]
    /\ w_done = [w \in Writers |-> 0]

\* run_concurrently is not called
EditorIdle ==
    /\ e_main = "idle"
    /\ e_editor = "unstarted"
    /\ e_work = "unstarted"
    /\ e_draft = NoFile
    /\ e_template = <<>>
    /\ e_exit = <<>>
    /\ e_records = <<>>
    /\ e_outcome = "none"

\* no hook invocation is in progress and no probe has been made
DecisionIdle ==
    /\ d_pc = "idle"
    /\ d_in = "none"
    /\ d_run = "none"
    /\ d_clean = "none"
    /\ d_draft = NoFile
    /\ d_expired = NoFile
    /\ d_did = "none"
    /\ d_count = 0
    /\ d_parent = "none"
    /\ d_open = "none"

\* stream_subprocess_output is not called
StreamIdle ==
    /\ g_pc = "idle"
    /\ g_done = FALSE
    /\ g_items = <<>>
    /\ g_proc = "none"
    /\ g_pipe = <<>>
    /\ g_written = <<>>
    /\ g_rc = <<>>

InitPartition ==
    /\ p_pc = "call"
    /\ p_in \in PartitionInputs
    /\ p_out = <<>>
    /\ p_closed = <<>>
    /\ XargsIdle
    /\ OutputIdle
    /\ EditorIdle
    /\ StreamIdle
    /\ DecisionIdle

\* partition() returns its tuple of partitions
PartitionReturn ==
    /\ p_pc = "call"
    /\ LET r == partition(p_in.cmd, p_in.varargs, p_in.target_concurrency,
                          p_in.max_length, p_in.platform)
       IN /\ ~r.raised
          /\ p_pc' = "returned"
          /\ p_out' = r.ret
          /\ p_closed' = r.ret
    /\ UNCHANGED <<p_in, xvars, ovars, evars, dvars, gvars>>

\* partition() raises ArgumentTooLongError(arg)
PartitionRaise ==
    /\ p_pc = "call"
    /\ LET r == partition(p_in.cmd, p_in.varargs, p_in.target_concurrency,
                          p_in.max_length, p_in.platform)
       IN /\ r.raised
          /\ p_pc' = "raised"
          /\ p_out' = r.arg
          /\ p_closed' = r.ret
    /\ UNCHANGED <<p_in, xvars, ovars, evars, dvars, gvars>>

NextPartition == PartitionReturn \/ PartitionRaise

SpecPartition == InitPartition /\ [][NextPartition]_vars

-----------------------------------------------------------------------------
(* Claims about partition() *)

\* the variable-argument tail of a returned partition
TailOf(part, cmd) == SubSeq(part, Len(cmd) + 1, Len(part))

SerializedLength(part) == command_length(part, p_in.platform)

\* prefix length + 1 + argument length + 1 > max_length
TooLongAlone(arg) ==
    command_length(p_in.cmd, p_in.platform) + 1
        + command_length(<<arg>>, p_in.platform) + 1
    > effective_max_length(p_in.max_length, p_in.platform)

Offending == { i \in 1..Len(p_in.varargs) : TooLongAlone(p_in.varargs[i]) }

\* C1: when partition() returns for a non-empty varargs, every partition
\* starts with the unchanged prefix and the concatenation of the partitions'
\* variable-argument tails, in order, is varargs exactly.
C1_OrderPreservingExhaustive ==
    (p_pc = "returned" /\ p_in.varargs # <<>>) =>
        /\ \A i \in 1..Len(p_out) :
              /\ Len(p_out[i]) >= Len(p_in.cmd)
              /\ SubSeq(p_out[i], 1, Len(p_in.cmd)) = p_in.cmd
        /\ Concat([i \in 1..Len(p_out) |-> TailOf(p_out[i], p_in.cmd)]) = p_in.varargs

\* a return with several partitions, split by length and holding a repeated argument
C1_Witness ==
    /\ p_pc = "returned"
    /\ Len(p_in.varargs) = MaxVarargs
    /\ Len(p_out) >= 3
    /\ p_in.varargs[1] = p_in.varargs[3]

\* C2: every partition partition() returns has a serialized length
\* (length of the space-joined prefix and arguments) <= max_length, for every
\* varargs including the empty one.
C2_EveryPartitionWithinMaxLength ==
    p_pc = "returned" =>
        \A i \in 1..Len(p_out) :
            SerializedLength(p_out[i])
                <= effective_max_length(p_in.max_length, p_in.platform)

\* C3: partition() raises ArgumentTooLongError exactly when some argument
\* does not fit alone with the prefix; the error names the first such
\* argument, nothing is returned, and otherwise the call returns.
C3_RaisesExactlyWhenTooLongAlone ==
    /\ p_pc = "raised" =>
          /\ Offending # {}
          /\ \E i \in Offending :
                /\ \A j \in Offending : i <= j
                /\ p_out = p_in.varargs[i]
    /\ p_pc = "returned" => Offending = {}

\* the error is raised after earlier arguments were placed in closed partitions
C3_Witness ==
    /\ p_pc = "raised"
    /\ Len(p_closed) >= 2
    /\ p_in.max_length # 0

\* C4: no returned partition holds more than
\* max(4, ceil(len(varargs) / target_concurrency)) variable arguments, and the
\* worked example returns (echo a b c d), (echo e).
C4_AtMostMaxArgsPerPartition ==
    p_pc = "returned" =>
        /\ \A i \in 1..Len(p_out) :
              Len(p_out[i]) - Len(p_in.cmd)
                  <= Max(4, Ceil(Len(p_in.varargs), p_in.target_concurrency))
        /\ p_in = ExampleInput =>
              p_out = << <<Echo, <<"a">>, <<"b">>, <<"c">>, <<"d">> >>,
                         <<Echo, <<"e">> >> >>

\* the worked example has returned
C4_Witness ==
    /\ p_pc = "returned"
    /\ p_in = ExampleInput
    /\ Len(p_out) = 2

-----------------------------------------------------------------------------
(* xargs(): the concurrent dispatcher.  What the workers write to the      *)
(* terminal is modelled with the output synchronizer further down; here a  *)
(* worker's output is the bytes run_cmd_partition returns.                 *)

\* parse_shebang.normalize_cmd: cmd[0] is resolved to an executable path
normalize_cmd(cmd) == << <<"/">> \o cmd[1] >> \o Tail(cmd)

\* ExecutableNotFoundError.to_output()[:2]
not_found_output == [retcode |-> 1, stdout |-> <<"E">>]

\* str.lower() on the code points the inputs use
lower(s) ==
    [i \in 1..Len(s) |->
        CASE s[i] = "B" -> "b" [] s[i] = "A" -> "a" [] s[i] = "T" -> "t"
          [] OTHER -> s[i]]

endswith(s, suffix) ==
    /\ Len(s) >= Len(suffix)
    /\ SubSeq(s, Len(s) - Len(suffix) + 1, Len(s)) = suffix

\* len(parse_shebang.find_executable('cmd.exe')), C:\Windows\system32\cmd.exe
CmdExeLen == 27

\* the batch-file adjustment of _max_length, xargs.py:195-204
xargs_max_length(cmd, max_length, platform) ==
    IF /\ platform = "win32"
       /\ \/ endswith(lower(cmd[1]), <<".", "b", "a", "t">>)
          \/ endswith(lower(cmd[1]), <<".", "c", "m", "d">>)
    THEN 8192 - CmdExeLen - 4 - 1024
    ELSE max_length

\* the argv the worker starts its subprocess with: cmd_fn(*run_cmd) in
\* buffered mode, stream_subprocess_output(cmd) in stream mode
popen_argv(stream_output, cmd, run_cmd) ==
    IF stream_output THEN cmd ELSE run_cmd

combine_last_wins(retcode, proc_retcode) ==
    IF Abs(proc_retcode) >= Abs(retcode) THEN proc_retcode ELSE retcode
\* if abs(proc_retcode) > abs(retcode): retcode = proc_retcode
combine(retcode, proc_retcode) ==
    IF Abs(proc_retcode) > Abs(retcode) THEN proc_retcode ELSE retcode

result_order_as_completed(k) ==
    IF k <= Len(x_completion) THEN x_completion[k] ELSE 0
\* the partition whose result is the k-th item of `results`: map and
\* Executor.map both yield results in the order of the iterable
result_order(k) == k

\* exit codes a subprocess may end with
RetCodes == {0 - 1, 0, 1}

Copies(x, k) == [i \in 1..k |-> x]

BatchInput ==
    [cmd |-> << <<"r", ".", "B", "A", "T">> >>,
     varargs |-> << <<"a">>, <<"a">> >>,
     target_concurrency |-> 2, max_length |-> 9, stream_output |-> FALSE,
     platform |-> "win32", found |-> TRUE]

XargsInputs ==
    [cmd : { <<Echo>> },
     varargs : { Copies(<<"b", "c", "d">>, k) : k \in 0..MaxJobs }
               \cup { << <<"a">>, <<"a">>, <<"b", "c", "d">> >> },
     target_concurrency : 1..MaxConcurrency,
     max_length : {9, 10},
     stream_output : BOOLEAN,
     platform : {"posix"},
     found : BOOLEAN]
    \cup {BatchInput}

InitXargs ==
    /\ PartitionIdle
    /\ OutputIdle
    /\ EditorIdle
    /\ StreamIdle
    /\ DecisionIdle
    /\ x_pc = "call"
    /\ x_in \in XargsInputs
    /\ x_cmd = <<>>
    /\ x_partitions = <<>>
    /\ x_threads = 0
    /\ x_task = <<>>
    /\ x_argv = <<>>
    /\ x_out = <<>>
    /\ x_rc = <<>>
    /\ x_next = 1
    /\ x_retcode = 0
    /\ x_stdout = <<>>
    /\ x_seen = <<>>
    /\ x_completion = <<>>

XargsPartitionResult ==
    LET cmd == normalize_cmd(x_in.cmd)
    IN partition(cmd, x_in.varargs, x_in.target_concurrency,
                 xargs_max_length(cmd, x_in.max_length, x_in.platform),
                 x_in.platform)

\* normalize_cmd raises ExecutableNotFoundError: return e.to_output()[:2]
XargsNotFound ==
    /\ x_pc = "call"
    /\ ~x_in.found
    /\ x_pc' = "returned"
    /\ x_retcode' = not_found_output.retcode
    /\ x_stdout' = not_found_output.stdout
    /\ UNCHANGED <<x_in, x_cmd, x_partitions, x_threads, x_task, x_argv, x_out,
                   x_rc, x_next, x_seen, x_completion, pvars, ovars, evars, dvars, gvars>>

\* partition() raises ArgumentTooLongError, which leaves xargs()
XargsArgumentTooLong ==
    /\ x_pc = "call"
    /\ x_in.found
    /\ XargsPartitionResult.raised
    /\ x_pc' = "raised"
    /\ x_cmd' = normalize_cmd(x_in.cmd)
    /\ UNCHANGED <<x_in, x_partitions, x_threads, x_task, x_argv, x_out, x_rc,
                   x_next, x_retcode, x_stdout, x_seen, x_completion, pvars, ovars, evars, dvars, gvars>>

\* one worker per partition
threads_per_partition(partitions, target_concurrency) == Len(partitions)

\* threads = min(len(partitions), target_concurrency)
threads_of(partitions, target_concurrency) ==
    Min(Len(partitions), target_concurrency)

\* partitions = partition(...); threads = min(...); thread_map(...) submits
\* every partition
XargsSubmit ==
    /\ x_pc = "call"
    /\ x_in.found
    /\ ~XargsPartitionResult.raised
    /\ LET parts == XargsPartitionResult.ret
       IN /\ x_partitions' = parts
          /\ x_threads' = threads_of(parts, x_in.target_concurrency)
          /\ x_task' = [i \in 1..Len(parts) |-> "pending"]
          /\ x_argv' = [i \in 1..Len(parts) |-> <<>>]
          /\ x_out' = [i \in 1..Len(parts) |-> <<>>]
          /\ x_rc' = [i \in 1..Len(parts) |-> 0]
    /\ x_cmd' = normalize_cmd(x_in.cmd)
    /\ x_pc' = "mapping"
    /\ UNCHANGED <<x_in, x_next, x_retcode, x_stdout, x_seen, x_completion, pvars, ovars, evars, dvars, gvars>>

Running == { i \in 1..Len(x_task) : x_task[i] = "running" }

\* run_cmd_partition(partitions[i]) begins: the subprocess is started
StartTask(i) ==
    /\ x_task' = [x_task EXCEPT ![i] = "running"]
    /\ x_argv' = [x_argv EXCEPT ![i] =
                      popen_argv(x_in.stream_output, x_cmd, x_partitions[i])]
    /\ UNCHANGED <<x_pc, x_in, x_cmd, x_partitions, x_threads, x_out, x_rc,
                   x_next, x_retcode, x_stdout, x_seen, x_completion, pvars, ovars, evars, dvars, gvars>>

\* maxsize == 1: plain map, the caller's thread runs the next partition when
\* the `for` loop asks for the next result
SeqStart ==
    /\ x_pc = "mapping"
    /\ x_threads = 1
    /\ x_next <= Len(x_partitions)
    /\ x_task[x_next] = "pending"
    /\ StartTask(x_next)

\* ThreadPoolExecutor(maxsize): an idle worker takes the oldest queued partition
PoolStart ==
    /\ x_pc = "mapping"
    /\ x_threads # 1
    /\ Cardinality(Running) < x_threads
    /\ \E i \in 1..Len(x_task) :
          /\ x_task[i] = "pending"
          /\ \A j \in 1..(i - 1) : x_task[j] # "pending"
          /\ StartTask(i)

\* stream mode: stream_subprocess_output yields (chunk, None); output += chunk
StreamChunk ==
    /\ x_pc = "mapping"
    /\ x_in.stream_output
    /\ \E i \in Running :
          /\ Len(x_out[i]) < MaxChunks
          /\ x_out' = [x_out EXCEPT ![i] = Append(@, i)]
    /\ UNCHANGED <<x_pc, x_in, x_cmd, x_partitions, x_threads, x_task, x_argv,
                   x_rc, x_next, x_retcode, x_stdout, x_seen, x_completion, pvars, ovars, evars, dvars, gvars>>

\* the subprocess ends with exit code rc and run_cmd_partition returns
TaskFinish ==
    /\ x_pc = "mapping"
    /\ \E i \in Running, rc \in RetCodes :
          /\ x_task' = [x_task EXCEPT ![i] = "done"]
          /\ x_rc' = [x_rc EXCEPT ![i] = rc]
          /\ x_out' = [x_out EXCEPT ![i] =
                          IF x_in.stream_output THEN @ ELSE <<i>>]
          /\ x_completion' = Append(x_completion, i)
    /\ UNCHANGED <<x_pc, x_in, x_cmd, x_partitions, x_threads, x_argv,
                   x_next, x_retcode, x_stdout, x_seen, pvars, ovars, evars, dvars, gvars>>

\* one iteration of `for proc_retcode, proc_out, _ in results`
Consume ==
    /\ x_pc = "mapping"
    /\ x_next <= Len(x_partitions)
    /\ LET i == result_order(x_next)
       IN /\ i # 0
          /\ x_task[i] = "done"
          /\ x_retcode' = combine(x_retcode, x_rc[i])
          /\ x_stdout' = x_stdout \o x_out[i]
          /\ x_seen' = Append(x_seen, x_rc[i])
    /\ x_next' = x_next + 1
    /\ UNCHANGED <<x_pc, x_in, x_cmd, x_partitions, x_threads, x_task, x_argv,
                   x_out, x_rc, x_completion, pvars, ovars, evars, dvars, gvars>>

\* the loop is over, the pool is shut down: return retcode, stdout
XargsReturn ==
    /\ x_pc = "mapping"
    /\ x_next = Len(x_partitions) + 1
    /\ x_pc' = "returned"
    /\ UNCHANGED <<x_in, x_cmd, x_partitions, x_threads, x_task, x_argv, x_out,
                   x_rc, x_next, x_retcode, x_stdout, x_seen, x_completion, pvars, ovars, evars, dvars, gvars>>

NextXargs ==
    \/ XargsNotFound
    \/ XargsArgumentTooLong
    \/ XargsSubmit
    \/ SeqStart
    \/ PoolStart
    \/ StreamChunk
    \/ TaskFinish
    \/ Consume
    \/ XargsReturn

SpecXargs == InitXargs /\ [][NextXargs]_vars

-----------------------------------------------------------------------------
(* Claims about xargs() *)

\* the element of largest absolute value, the earliest one among equals
FirstMaxAbs(seen) ==
    IF seen = <<>> THEN 0
    ELSE LET k == CHOOSE k \in 1..Len(seen) :
                      /\ \A j \in 1..Len(seen) : Abs(seen[j]) <= Abs(seen[k])
                      /\ \A j \in 1..(k - 1) : Abs(seen[j]) < Abs(seen[k])
         IN seen[k]

\* the aggregation loop applied to a sequence of partition exit codes
RECURSIVE FoldRetcode(_, _)
FoldRetcode(retcode, codes) ==
    IF codes = <<>> THEN retcode
    ELSE FoldRetcode(combine(retcode, codes[1]), Tail(codes))

XargsRan == x_pc = "returned" /\ x_partitions # <<>>

\* C5: the exit code xargs() returns is the partition exit code of largest
\* absolute value, the first one seen winning ties; it is 0 only if every
\* partition returned 0; (0,-1,2,0) gives 2, (0,-3,1) gives -3, (-1,1) gives -1.
C5_ExitCodeIsFirstLargestMagnitude ==
    /\ XargsRan =>
          /\ Len(x_seen) = Len(x_partitions)
          /\ \A i \in 1..Len(x_seen) : x_seen[i] = x_rc[i]
          /\ x_retcode = FirstMaxAbs(x_seen)
          /\ (x_retcode = 0) <=> (\A i \in 1..Len(x_rc) : x_rc[i] = 0)
    /\ FoldRetcode(0, <<0, 0 - 1, 2, 0>>) = 2
    /\ FoldRetcode(0, <<0, 0 - 3, 1>>) = 0 - 3
    /\ FoldRetcode(0, <<0 - 1, 1>>) = 0 - 1

\* three partitions ran, -1 was seen before 1 and won the tie
C5_Witness ==
    /\ XargsRan
    /\ x_seen = <<0, 0 - 1, 1>>
    /\ x_retcode = 0 - 1

\* C6 as stated: with several partitions running concurrently, the returned
\* output is the concatenation of the partitions' outputs in the order in
\* which the partitions complete.
C6_OutputInCompletionOrder ==
    (XargsRan /\ x_threads > 1) =>
        x_stdout = Concat([k \in 1..Len(x_completion) |-> x_out[x_completion[k]]])

\* C6 as amended: the returned output is the concatenation of the partitions'
\* outputs in submission (partition) order, whatever order they complete in.
C6_OutputInSubmissionOrder ==
    XargsRan =>
        x_stdout = Concat([i \in 1..Len(x_partitions) |-> x_out[i]])

\* partition 2 finished before partition 1 and both produced output
C6_Witness ==
    /\ XargsRan
    /\ x_threads > 1
    /\ x_completion[1] = 2
    /\ x_out[1] # <<>>
    /\ x_out[2] # <<>>
    /\ x_stdout = x_out[1] \o x_out[2]

\* C7: in both output modes the subprocess started for a partition is
\* invoked with exactly that partition's argv, so no subprocess is started
\* with the bare prefix when varargs is non-empty and, once xargs() returns,
\* the started argv tails make up varargs.
C7_SubprocessGetsPartitionArgv ==
    /\ \A i \in 1..Len(x_argv) :
          x_argv[i] # <<>> =>
              /\ x_argv[i] = x_partitions[i]
              /\ (x_in.varargs # <<>> => x_argv[i] # x_cmd)
    /\ XargsRan =>
          Concat([i \in 1..Len(x_argv) |-> TailOf(x_argv[i], x_cmd)]) = x_in.varargs

-----------------------------------------------------------------------------
(* Output synchronizer: stdout_lock, write_b, write_line_b, the streaming  *)
(* writer of xargs.run_cmd_partition, and paused_stdout.                   *)
(* An entry of a stream is [w, part, inscope]: the writing thread, which   *)
(* piece of the call it is ("b", "s", "nl", "chunk"), and whether the call *)
(* began while a paused scope was open.                                    *)

ScopeOpen == s_pc \in {"active", "closing"}

\* the calls a writer thread may make
WriterOps ==
    { [kind |-> "write_b", text |-> TRUE, log |-> FALSE],
      [kind |-> "write_line_b", text |-> TRUE, log |-> FALSE],
      [kind |-> "write_line_b", text |-> TRUE, log |-> TRUE],
      [kind |-> "stream", text |-> TRUE, log |-> FALSE] }

Entry(w, part) == [w |-> w, part |-> part, inscope |-> w_op[w].inscope]

\* calls begun so far by all writer threads
TotalCalls ==
    LET n(w) == w_done[w] + (IF w_pc[w] = "idle" THEN 0 ELSE 1)
    IN n("w1") + n("w2")

\* stream.write(piece) on the stream the thread holds
WriteTo(target, e) ==
    IF target = "real"
    THEN /\ o_real' = Append(o_real, e)
         /\ UNCHANGED o_buffer
    ELSE /\ o_buffer' = Append(o_buffer, e)
         /\ UNCHANGED o_real

\* the call is over
Finish(w) ==
    /\ w_pc' = [w_pc EXCEPT ![w] = "idle"]
    /\ w_op' = [w_op EXCEPT ![w] = NoCall]
    /\ w_stream' = [w_stream EXCEPT ![w] = "unset"]
    /\ w_done' = [w_done EXCEPT ![w] = @ + 1]

\* a thread calls write_b / write_line_b (stream=None) or reaches a
\* `with stdout_lock:` block of run_cmd_partition
WCall(w) ==
    /\ w_pc[w] = "idle"
    /\ TotalCalls < MaxWrites
    /\ \E op \in WriterOps :
          /\ w_op' = [w_op EXCEPT ![w] =
                         [kind |-> op.kind, text |-> op.text, log |-> op.log,
                          inscope |-> ScopeOpen]]
          /\ w_pc' = [w_pc EXCEPT ![w] =
                         IF op.kind = "stream" THEN "s_acquire" ELSE "acquire"]
    /\ UNCHANGED <<o_lock, sys_stdout, o_real, o_buffer, o_logfile, o_block,
                   s_pc, s_step, s_closer, w_stream, w_done>>

\* with stdout_lock:   (output.py:14, 29)
WAcquire(w) ==
    /\ w_pc[w] = "acquire"
    /\ o_lock = "free"
    /\ o_lock' = w
    /\ w_pc' = [w_pc EXCEPT ![w] = "capture"]
    /\ UNCHANGED <<sys_stdout, o_real, o_buffer, o_logfile, o_block,
                   s_pc, s_step, s_closer, w_op, w_stream, w_done>>

\* stream = sys.stdout.buffer, and the with block ends   (output.py:15, 30)
WCapture(w) ==
    /\ w_pc[w] = "capture"
    /\ w_stream' = [w_stream EXCEPT ![w] = sys_stdout]
    /\ o_lock' = "free"
    /\ w_pc' = [w_pc EXCEPT ![w] =
                   IF w_op[w].kind = "write_b" THEN "write"
                   ELSE IF w_op[w].text THEN "text" ELSE "nl"]
    /\ UNCHANGED <<sys_stdout, o_real, o_buffer, o_logfile, o_block,
                   s_pc, s_step, s_closer, w_op, w_done>>

\* write_b: stream.write(b)   (output.py:17)
WWrite(w) ==
    /\ w_pc[w] = "write"
    /\ WriteTo(w_stream[w], Entry(w, "b"))
    /\ w_pc' = [w_pc EXCEPT ![w] = "flush"]
    /\ UNCHANGED <<o_lock, sys_stdout, o_logfile, o_block,
                   s_pc, s_step, s_closer, w_op, w_stream, w_done>>

\* write_line_b: output_stream.write(s)   (output.py:39-40)
WText(w) ==
    /\ w_pc[w] = "text"
    /\ WriteTo(w_stream[w], Entry(w, "s"))
    /\ w_pc' = [w_pc EXCEPT ![w] = "nl"]
    /\ UNCHANGED <<o_lock, sys_stdout, o_logfile, o_block,
                   s_pc, s_step, s_closer, w_op, w_stream, w_done>>

\* write_line_b: output_stream.write(b'\n')   (output.py:41)
WNewline(w) ==
    /\ w_pc[w] = "nl"
    /\ WriteTo(w_stream[w], Entry(w, "nl"))
    /\ w_pc' = [w_pc EXCEPT ![w] = "flush"]
    /\ UNCHANGED <<o_lock, sys_stdout, o_logfile, o_block,
                   s_pc, s_step, s_closer, w_op, w_stream, w_done>>

\* stream.write(...) on the BytesIO of a scope that is over: once the
\* generator of paused_stdout has finished, its TextIOWrapper is released and
\* closes the BytesIO, so the write raises ValueError and the call ends
\* without writing   (output.py:17, 40-41)
WRaise(w) ==
    /\ w_pc[w] \in {"write", "text", "nl"}
    /\ w_stream[w] = "buffer"
    /\ s_pc = "ended"
    /\ w_pc' = [w_pc EXCEPT ![w] = "raised"]
    /\ UNCHANGED <<o_lock, sys_stdout, o_real, o_buffer, o_logfile, o_block,
                   s_pc, s_step, s_closer, w_op, w_stream, w_done>>

\* stream.flush(); write_line_b goes on to the log file if there is one
WFlush(w) ==
    /\ w_pc[w] = "flush"
    /\ IF w_op[w].log
       THEN /\ w_pc' = [w_pc EXCEPT ![w] = "log"]
            /\ UNCHANGED <<w_op, w_stream, w_done>>
       ELSE Finish(w)
    /\ UNCHANGED <<o_lock, sys_stdout, o_real, o_buffer, o_logfile, o_block,
                   s_pc, s_step, s_closer>>

\* write_line_b: the same pieces written to the log file   (output.py:34-42)
WLog(w) ==
    /\ w_pc[w] = "log"
    /\ o_logfile' = o_logfile \o <<Entry(w, "s"), Entry(w, "nl")>>
    /\ Finish(w)
    /\ UNCHANGED <<o_lock, sys_stdout, o_real, o_buffer, o_block,
                   s_pc, s_step, s_closer>>

\* run_cmd_partition: with stdout_lock:   (xargs.py:219, 225, 241)
SAcquire(w) ==
    /\ w_pc[w] = "s_acquire"
    /\ o_lock = "free"
    /\ o_lock' = w
    /\ w_pc' = [w_pc EXCEPT ![w] = "s_write"]
    /\ UNCHANGED <<sys_stdout, o_real, o_buffer, o_logfile, o_block,
                   s_pc, s_step, s_closer, w_op, w_stream, w_done>>

\* run_cmd_partition: sys.stdout.buffer.write(chunk)   (xargs.py:220, 226, 242)
SWrite(w) ==
    /\ w_pc[w] = "s_write"
    /\ WriteTo(sys_stdout, Entry(w, "chunk"))
    /\ w_stream' = [w_stream EXCEPT ![w] = sys_stdout]
    /\ w_pc' = [w_pc EXCEPT ![w] = "s_flush"]
    /\ UNCHANGED <<o_lock, sys_stdout, o_logfile, o_block,
                   s_pc, s_step, s_closer, w_op, w_done>>

\* run_cmd_partition: sys.stdout.buffer.flush(), and the with block ends
SFlushRelease(w) ==
    /\ w_pc[w] = "s_flush"
    /\ o_lock' = "free"
    /\ Finish(w)
    /\ UNCHANGED <<sys_stdout, o_real, o_buffer, o_logfile, o_block,
                   s_pc, s_step, s_closer>>

paused_stdout_exit_keeps_lock ==
    <<"acquire", "restore", "write", "flush">>
paused_stdout_exit_restore_first ==
    <<"restore", "acquire", "write", "flush", "release">>
\* what paused_stdout executes after its yield, in order: stdout_lock.acquire()
\* inside the redirect, the redirect's exit, write_b's write and flush,
\* stdout_lock.release()   (output.py:53-59)
paused_stdout_exit ==
    <<"acquire", "restore", "write", "flush", "release">>

\* paused_stdout is entered: redirect_stdout binds sys.stdout to the buffer
ScopeEnter ==
    /\ s_pc = "none"
    /\ sys_stdout' = "buffer"
    /\ s_pc' = "active"
    /\ UNCHANGED <<o_lock, o_real, o_buffer, o_logfile, o_block, s_step,
                   s_closer, w_pc, w_op, w_stream, w_done>>

\* the next step of the scope's exit when thread t runs it
NextExitStep(t) ==
    IF s_pc = "active" \/ (s_pc = "closing" /\ s_closer = t)
    THEN paused_stdout_exit[s_step + 1]
    ELSE "none"

Advance(t) ==
    /\ s_step' = s_step + 1
    /\ s_closer' = t
    /\ s_pc' = IF s_step + 1 = Len(paused_stdout_exit) THEN "ended" ELSE "closing"

\* stdout_lock.acquire()   (output.py:57)
ScopeAcquire(t) ==
    /\ NextExitStep(t) = "acquire"
    /\ o_lock = "free"
    /\ o_lock' = t
    /\ Advance(t)
    /\ UNCHANGED <<sys_stdout, o_real, o_buffer, o_logfile, o_block,
                   w_pc, w_op, w_stream, w_done>>

\* redirect_stdout.__exit__: sys.stdout is the real stream again
ScopeRestore(t) ==
    /\ NextExitStep(t) = "restore"
    /\ sys_stdout' = "real"
    /\ Advance(t)
    /\ UNCHANGED <<o_lock, o_real, o_buffer, o_logfile, o_block,
                   w_pc, w_op, w_stream, w_done>>

\* write_b(buffer.getvalue(), sys.stdout.buffer): stream.write(b)
ScopeWrite(t) ==
    /\ NextExitStep(t) = "write"
    /\ o_real' = o_real \o o_buffer
    /\ o_block' = <<Len(o_real) + 1, Len(o_real) + Len(o_buffer)>>
    /\ Advance(t)
    /\ UNCHANGED <<o_lock, sys_stdout, o_buffer, o_logfile,
                   w_pc, w_op, w_stream, w_done>>

\* write_b(...): stream.flush()
ScopeFlush(t) ==
    /\ NextExitStep(t) = "flush"
    /\ Advance(t)
    /\ UNCHANGED <<o_lock, sys_stdout, o_real, o_buffer, o_logfile, o_block,
                   w_pc, w_op, w_stream, w_done>>

\* stdout_lock.release()   (output.py:59)
ScopeRelease(t) ==
    /\ NextExitStep(t) = "release"
    /\ o_lock' = "free"
    /\ Advance(t)
    /\ UNCHANGED <<sys_stdout, o_real, o_buffer, o_logfile, o_block,
                   w_pc, w_op, w_stream, w_done>>

\* an exception reaches the scope's yield: the redirect is undone and the
\* exception propagates, skipping acquire, write and release
ScopeAbandon ==
    /\ s_pc = "active"
    /\ sys_stdout' = "real"
    /\ s_pc' = "abandoned"
    /\ UNCHANGED <<o_lock, o_real, o_buffer, o_logfile, o_block, s_step,
                   s_closer, w_pc, w_op, w_stream, w_done>>

InitOutput ==
    /\ PartitionIdle
    /\ XargsIdle
    /\ OutputIdle
    /\ EditorIdle
    /\ StreamIdle
    /\ DecisionIdle

WriterStep(w) ==
    \/ WCall(w)
    \/ WAcquire(w)
    \/ WCapture(w)
    \/ WWrite(w)
    \/ WText(w)
    \/ WNewline(w)
    \/ WRaise(w)
    \/ WFlush(w)
    \/ WLog(w)
    \/ SAcquire(w)
    \/ SWrite(w)
    \/ SFlushRelease(w)

NextOutput ==
    \/ \E w \in Writers : WriterStep(w) /\ UNCHANGED <<pvars, xvars, evars, dvars, gvars>>
    \/ ScopeEnter /\ UNCHANGED <<pvars, xvars, evars, dvars, gvars>>
    \/ ScopeAcquire("scope") /\ UNCHANGED <<pvars, xvars, evars, dvars, gvars>>
    \/ ScopeRestore("scope") /\ UNCHANGED <<pvars, xvars, evars, dvars, gvars>>
    \/ ScopeWrite("scope") /\ UNCHANGED <<pvars, xvars, evars, dvars, gvars>>
    \/ ScopeFlush("scope") /\ UNCHANGED <<pvars, xvars, evars, dvars, gvars>>
    \/ ScopeRelease("scope") /\ UNCHANGED <<pvars, xvars, evars, dvars, gvars>>
    \/ ScopeAbandon /\ UNCHANGED <<pvars, xvars, evars, dvars, gvars>>

SpecOutput == InitOutput /\ [][NextOutput]_vars

-----------------------------------------------------------------------------
(* Claims about the output synchronizer *)

InBlock(i) == o_block # <<>> /\ i >= o_block[1] /\ i <= o_block[2]

InRealWrite(w) ==
    /\ w_stream[w] = "real"
    /\ w_pc[w] \in {"nl", "flush", "s_flush"}
    /\ w_pc[w] = "nl" => w_op[w].text

ScopeInRealWrite ==
    /\ s_pc = "closing"
    /\ s_step >= 1
    /\ paused_stdout_exit[s_step] = "write"

\* C9: every write path holds stdout_lock for the whole of its write and
\* flush, so no two threads are inside a write to the real stream at once,
\* and the text and newline of one write_line_b call are never separated.
C9_WritesSerializedByLock ==
    /\ \A w \in Writers : InRealWrite(w) => o_lock = w
    /\ \A w1, w2 \in Writers : (InRealWrite(w1) /\ InRealWrite(w2)) => w1 = w2
    /\ \A w \in Writers : ~(InRealWrite(w) /\ ScopeInRealWrite)
    /\ \A i \in 1..Len(o_real) :
          (o_real[i].part = "s" /\ i < Len(o_real)) =>
              (o_real[i + 1].part = "nl" /\ o_real[i + 1].w = o_real[i].w)

\* what the scope's write_b copied to the real stream: nothing before it ran
Flushed == IF o_block = <<>> THEN 0 ELSE o_block[2] - o_block[1] + 1

\* C21: around the end of a paused scope no output is lost: a write call
\* never ends with an exception, nothing lands in the in-memory buffer after
\* the buffer's contents have been copied to the real stream, and once the
\* scope has ended every buffered piece is on the real stream, inside the
\* flushed block.
C21_NoOutputLostAroundScopeEnd ==
    /\ \A w \in Writers : w_pc[w] # "raised"
    /\ o_block # <<>> => Len(o_buffer) = Flushed
    /\ s_pc = "ended" =>
          \A j \in 1..Len(o_buffer) :
             /\ j <= Flushed
             /\ o_real[o_block[1] + j - 1] = o_buffer[j]

-----------------------------------------------------------------------------
(* run_concurrently: the editor task and the work task around a paused     *)
(* output scope.  A text is the sequence of its lines as split at '\n'     *)
(* (the empty text is one empty line); a line is a sequence of tokens.     *)

\* line.startswith('#')
startswith_hash(line) == line # <<>> /\ line[1] = "#"

\* str.splitlines() of a text whose only line separator is '\n'
splitlines(text) ==
    IF text[Len(text)] = <<>> THEN SubSeq(text, 1, Len(text) - 1) ELSE text

\* '\n'.join(lines)
join_lines(lines) == IF lines = <<>> THEN << <<>> >> ELSE lines

\* a + b on texts
text_concat(a, b) ==
    SubSeq(a, 1, Len(a) - 1) \o << a[Len(a)] \o b[1] >> \o Tail(b)

COMMIT_MESSAGE_HEADER ==
    << <<>>,
       <<"#", " Please enter the commit message for your changes. Lines starting">>,
       <<"#", " with '#' will be ignored, and an empty message aborts the commit.">>,
       <<"#">>,
       <<>> >>

\* _get_commit_message_template, given the output of `git status`
get_commit_message_template(status) ==
    LET lines == splitlines(status)
        commented_status ==
            join_lines([k \in 1..Len(lines) |-> <<"#", " ">> \o lines[k]])
    IN text_concat(COMMIT_MESSAGE_HEADER, commented_status)

\* a refresh that keeps the comment lines of the old draft
edit_draft_keep_comments(draft, template) ==
    IF draft = NoFile
    THEN template
    ELSE text_concat(join_lines(splitlines(draft)), template)

\* the draft _edit_commit_message writes   (editor.py:168-175)
edit_draft(draft, template) ==
    IF draft = NoFile
    THEN template
    ELSE LET kept == SelectSeq(splitlines(draft),
                               LAMBDA line : ~startswith_hash(line))
         IN text_concat(join_lines(kept), template)

\* output of `git status`
GitStatus == << <<"On branch main">>, <<"nothing to commit">>, <<>> >>

\* drafts left by an earlier attempt
Drafts == { NoFile, << <<"fix bug">>, <<"#", " old status">>, <<>> >> }

InitEditor ==
    /\ PartitionIdle
    /\ XargsIdle
    /\ OutputIdle
    /\ DecisionIdle
    /\ StreamIdle
    /\ e_main = "start"
    /\ e_editor = "unstarted"
    /\ e_work = "unstarted"
    /\ e_draft \in Drafts
    /\ e_template = <<>>
    /\ e_exit = <<>>
    /\ e_records = <<>>
    /\ e_outcome = "none"

\* what the scope actions leave alone in this specification
EditorFrame == UNCHANGED <<pvars, xvars, dvars, gvars>>

\* output.write_line('Waiting for your editor ...'), no other thread running
MainAnnounce ==
    /\ e_main = "start"
    /\ o_real' = o_real \o <<[w |-> "main", part |-> "s", inscope |-> FALSE],
                             [w |-> "main", part |-> "nl", inscope |-> FALSE]>>
    /\ e_main' = "announced"
    /\ UNCHANGED <<o_lock, sys_stdout, o_buffer, o_logfile, o_block, s_pc,
                   s_step, s_closer, w_pc, w_op, w_stream, w_done,
                   e_editor, e_work, e_draft, e_template, e_exit, e_records,
                   e_outcome>>
    /\ EditorFrame

\* commit_message_template = _get_commit_message_template()
MainTemplate ==
    /\ e_main = "announced"
    /\ e_template' = get_commit_message_template(GitStatus)
    /\ e_main' = "template"
    /\ UNCHANGED <<ovars, e_editor, e_work, e_draft, e_exit, e_records, e_outcome>>
    /\ EditorFrame

\* `git status` fails: CalledProcessError leaves run_concurrently
MainTemplateFails ==
    /\ e_main = "announced"
    /\ e_main' = "raised"
    /\ e_outcome' = "exception"
    /\ UNCHANGED <<ovars, e_editor, e_work, e_draft, e_template, e_exit, e_records>>
    /\ EditorFrame

\* paused_stdout_stack.enter_context(output.paused_stdout())
MainEnterScope ==
    /\ e_main = "template"
    /\ ScopeEnter
    /\ e_main' = "scoped"
    /\ UNCHANGED <<e_editor, e_work, e_draft, e_template, e_exit, e_records, e_outcome>>
    /\ EditorFrame

\* ex.submit(launch_editor)
MainSubmitEditor ==
    /\ e_main = "scoped"
    /\ e_editor' = "started"
    /\ e_main' = "editor_submitted"
    /\ UNCHANGED <<ovars, e_work, e_draft, e_template, e_exit, e_records, e_outcome>>
    /\ EditorFrame

\* retval_future = ex.submit(fun, *args)
MainSubmitWork ==
    /\ e_main = "editor_submitted"
    /\ e_work' = "running"
    /\ e_main' = "waiting"
    /\ UNCHANGED <<ovars, e_editor, e_draft, e_template, e_exit, e_records, e_outcome>>
    /\ EditorFrame

\* retval_future.result() returns or raises once fun has ended
MainResult ==
    /\ e_main = "waiting"
    /\ e_work \in {"returned", "raised"}
    /\ e_main' = "pool_exit"
    /\ UNCHANGED <<ovars, e_editor, e_work, e_draft, e_template, e_exit, e_records, e_outcome>>
    /\ EditorFrame

\* ThreadPoolExecutor.__exit__ with shutdown(wait=False): does not wait
shutdown_no_wait(editor, work) == TRUE

\* ThreadPoolExecutor.__exit__: shutdown(wait=True) joins both worker threads
shutdown_wait(editor, work) ==
    /\ editor \in {"done", "failed"}
    /\ work \in {"returned", "raised"}

\* ThreadPoolExecutor.__exit__: shutdown(wait=True) waits for the editor task
MainPoolShutdown ==
    /\ e_main = "pool_exit"
    /\ shutdown_wait(e_editor, e_work)
    /\ e_main' = "stack_exit"
    /\ UNCHANGED <<ovars, e_editor, e_work, e_draft, e_template, e_exit, e_records, e_outcome>>
    /\ EditorFrame

MainUnchanged ==
    UNCHANGED <<e_main, e_editor, e_work, e_draft, e_template, e_exit,
                e_records, e_outcome>>

\* ExitStack.__exit__ without exception, the scope still open: paused_stdout
\* is left normally by the calling thread
MainCloseScope ==
    /\ e_main = "stack_exit"
    /\ e_work = "returned"
    /\ \/ ScopeAcquire("main")
       \/ ScopeRestore("main")
       \/ ScopeWrite("main")
       \/ ScopeFlush("main")
       \/ ScopeRelease("main")
    /\ MainUnchanged
    /\ EditorFrame

\* ExitStack.__exit__ with the exception of fun, the scope still open: the
\* exception is thrown into paused_stdout
MainAbandonScope ==
    /\ e_main = "stack_exit"
    /\ e_work = "raised"
    /\ ScopeAbandon
    /\ MainUnchanged
    /\ EditorFrame

\* run_concurrently returns fun's value or lets fun's exception through
MainFinish ==
    /\ e_main = "stack_exit"
    /\ s_pc \in {"ended", "abandoned"}
    /\ e_main' = IF e_work = "returned" THEN "returned" ELSE "raised"
    /\ e_outcome' = IF e_work = "returned" THEN "value" ELSE "exception"
    /\ UNCHANGED <<ovars, e_editor, e_work, e_draft, e_template, e_exit, e_records>>
    /\ EditorFrame

\* _edit_commit_message: create or refresh the draft   (editor.py:168-175)
EditDraft ==
    /\ e_editor = "started"
    /\ e_draft' = edit_draft(e_draft, e_template)
    /\ e_editor' = "drafted"
    /\ UNCHANGED <<ovars, e_main, e_work, e_template, e_exit, e_records, e_outcome>>
    /\ EditorFrame

\* git_editor = _get_global_git_editor()
EditGetEditor ==
    /\ e_editor = "drafted"
    /\ e_editor' = "have_editor"
    /\ UNCHANGED <<ovars, e_main, e_work, e_draft, e_template, e_exit, e_records, e_outcome>>
    /\ EditorFrame

\* `git var GIT_EDITOR` fails: CalledProcessError ends launch_editor
EditGetEditorFails ==
    /\ e_editor = "drafted"
    /\ e_editor' = "failed"
    /\ UNCHANGED <<ovars, e_main, e_work, e_draft, e_template, e_exit, e_records, e_outcome>>
    /\ EditorFrame

\* with monitor.trace(...): with open('/dev/tty') as stdin:
EditOpenTty ==
    /\ e_editor = "have_editor"
    /\ e_editor' = "tty"
    /\ UNCHANGED <<ovars, e_main, e_work, e_draft, e_template, e_exit, e_records, e_outcome>>
    /\ EditorFrame

\* open('/dev/tty') raises OSError: the trace records a failure and the
\* exception ends launch_editor
EditOpenTtyFails ==
    /\ e_editor = "have_editor"
    /\ e_records' = Append(e_records, [name |-> "precommit.editor", successful |-> FALSE])
    /\ e_editor' = "failed"
    /\ UNCHANGED <<ovars, e_main, e_work, e_draft, e_template, e_exit, e_outcome>>
    /\ EditorFrame

\* subprocess.call(...) returns the editor's exit status, zero or not
EditorExits ==
    /\ e_editor = "tty"
    /\ \E status \in {0, 1} : e_exit' = <<status>>
    /\ e_records' = Append(e_records, [name |-> "precommit.editor", successful |-> TRUE])
    /\ e_editor' = "edited"
    /\ UNCHANGED <<ovars, e_main, e_work, e_draft, e_template, e_outcome>>
    /\ EditorFrame

\* subprocess.call(...) raises (the editor command cannot be started)
EditorCallRaises ==
    /\ e_editor = "tty"
    /\ e_records' = Append(e_records, [name |-> "precommit.editor", successful |-> FALSE])
    /\ e_editor' = "failed"
    /\ UNCHANGED <<ovars, e_main, e_work, e_draft, e_template, e_exit, e_outcome>>
    /\ EditorFrame

\* paused_stdout_stack.close() in launch_editor: the editor task leaves
\* paused_stdout, and ends when the lock is released
EditorCloseScope ==
    /\ e_editor = "edited"
    /\ \/ ScopeAcquire("editor")
       \/ ScopeRestore("editor")
       \/ ScopeWrite("editor")
       \/ ScopeFlush("editor")
       \/ ScopeRelease("editor")
    /\ e_editor' = IF s_pc' = "ended" THEN "done" ELSE "edited"
    /\ UNCHANGED <<e_main, e_work, e_draft, e_template, e_exit, e_records, e_outcome>>
    /\ EditorFrame

\* fun and the threads it runs write their output
WorkWrites ==
    /\ e_work = "running"
    /\ \E w \in Writers : WriterStep(w)
    /\ MainUnchanged
    /\ EditorFrame

\* fun returns
WorkReturns ==
    /\ e_work = "running"
    /\ \A w \in Writers : w_pc[w] = "idle"
    /\ e_work' = "returned"
    /\ UNCHANGED <<ovars, e_main, e_editor, e_draft, e_template, e_exit, e_records, e_outcome>>
    /\ EditorFrame

\* fun raises, of itself or because one of its write calls raised
WorkRaises ==
    /\ e_work = "running"
    /\ \A w \in Writers : w_pc[w] \in {"idle", "raised"}
    /\ e_work' = "raised"
    /\ UNCHANGED <<ovars, e_main, e_editor, e_draft, e_template, e_exit, e_records, e_outcome>>
    /\ EditorFrame

NextEditor ==
    \/ MainAnnounce
    \/ MainTemplate
    \/ MainTemplateFails
    \/ MainEnterScope
    \/ MainSubmitEditor
    \/ MainSubmitWork
    \/ MainResult
    \/ MainPoolShutdown
    \/ MainCloseScope
    \/ MainAbandonScope
    \/ MainFinish
    \/ EditDraft
    \/ EditGetEditor
    \/ EditGetEditorFails
    \/ EditOpenTty
    \/ EditOpenTtyFails
    \/ EditorExits
    \/ EditorCallRaises
    \/ EditorCloseScope
    \/ WorkWrites
    \/ WorkReturns
    \/ WorkRaises

SpecEditor == InitEditor /\ [][NextEditor]_vars

\* the steps of each thread of run_concurrently
MainThread ==
    \/ MainAnnounce
    \/ MainTemplate
    \/ MainTemplateFails
    \/ MainEnterScope
    \/ MainSubmitEditor
    \/ MainSubmitWork
    \/ MainResult
    \/ MainPoolShutdown
    \/ MainCloseScope
    \/ MainAbandonScope
    \/ MainFinish

EditorThread ==
    \/ EditDraft
    \/ EditGetEditor
    \/ EditGetEditorFails
    \/ EditOpenTty
    \/ EditOpenTtyFails
    \/ EditorExits
    \/ EditorCallRaises
    \/ EditorCloseScope

\* one thread of fun inside a write call it has begun
WriterThread(w) ==
    /\ w_pc[w] # "idle"
    /\ e_work = "running"
    /\ WriterStep(w)
    /\ MainUnchanged
    /\ EditorFrame

\* fun ends
WorkEnds == WorkReturns \/ WorkRaises

\* where every thread is; each step of a thread changes it
positions == <<e_main, e_editor, e_work, s_pc, s_step, w_pc>>

\* every thread that can take a step eventually takes one; the editor process
\* and the subprocesses of fun terminate, so EditorExits and the end of fun
\* are steps like the others
FairThreads ==
    /\ WF_positions(MainThread)
    /\ WF_positions(EditorThread)
    /\ WF_positions(WorkEnds)
    /\ \A w \in Writers : WF_positions(WriterThread(w))

\* a worker of the dispatcher reaches a `with stdout_lock:` block of
\* run_cmd_partition   (xargs.py:219, 225, 241)
StreamCall(w) ==
    /\ w_pc[w] = "idle"
    /\ TotalCalls < MaxWrites
    /\ w_op' = [w_op EXCEPT ![w] =
                   [kind |-> "stream", text |-> TRUE, log |-> FALSE,
                    inscope |-> ScopeOpen]]
    /\ w_pc' = [w_pc EXCEPT ![w] = "s_acquire"]
    /\ UNCHANGED <<o_lock, sys_stdout, o_real, o_buffer, o_logfile, o_block,
                   s_pc, s_step, s_closer, w_stream, w_done>>

\* fun is a dispatcher call: its workers stream the output of their
\* subprocesses
WorkStreams ==
    /\ e_work = "running"
    /\ \E w \in Writers :
          \/ StreamCall(w)
          \/ SAcquire(w)
          \/ SWrite(w)
          \/ SFlushRelease(w)
    /\ MainUnchanged
    /\ EditorFrame

NextNested ==
    \/ MainAnnounce
    \/ MainTemplate
    \/ MainTemplateFails
    \/ MainEnterScope
    \/ MainSubmitEditor
    \/ MainSubmitWork
    \/ MainResult
    \/ MainPoolShutdown
    \/ MainCloseScope
    \/ MainAbandonScope
    \/ MainFinish
    \/ EditDraft
    \/ EditGetEditor
    \/ EditGetEditorFails
    \/ EditOpenTty
    \/ EditOpenTtyFails
    \/ EditorExits
    \/ EditorCallRaises
    \/ EditorCloseScope
    \/ WorkStreams
    \/ WorkReturns
    \/ WorkRaises

\* run_concurrently around a dispatcher call whose workers stream output,
\* fairly scheduled
SpecNested == InitEditor /\ [][NextNested]_vars /\ FairThreads

-----------------------------------------------------------------------------
(* Claims about run_concurrently *)

\* C10: on every path out of the editor task (editor exits normally, editor
\* exits with a non-zero status, the edit step fails) the paused-output scope
\* has been closed by the time the editor task ends.
C10_EditorTaskAlwaysResumesOutput ==
    e_editor \in {"done", "failed"} =>
        /\ s_pc = "ended"
        /\ sys_stdout = "real"


\* C11: run_concurrently gives control back to its caller only after both the
\* editor task and the work task have finished; it returns the value of fun
\* exactly when fun returned, and when fun raised the exception reaches the
\* caller, whether the editor task succeeded or failed.
C11_ReturnsAfterBothTasksWithWorkOutcome ==
    (e_main \in {"returned", "raised"} /\ e_work # "unstarted") =>
        /\ e_editor \in {"done", "failed"}
        /\ e_work \in {"returned", "raised"}
        /\ e_work = "returned" => (e_main = "returned" /\ e_outcome = "value")
        /\ e_work = "raised" => (e_main = "raised" /\ e_outcome = "exception")

\* fun raised after the editor task had failed, and the caller got the exception
C11_Witness ==
    /\ e_main = "raised"
    /\ e_outcome = "exception"
    /\ e_work = "raised"
    /\ e_editor = "failed"


\* a thread is blocked on stdout_lock: a writer at `with stdout_lock:`, or the
\* thread that leaves paused_stdout at stdout_lock.acquire()
WriterWaits(w) == w_pc[w] \in {"acquire", "s_acquire"}
EditorWaits == e_editor = "edited" /\ s_pc = "active"
MainWaits == e_main = "stack_exit" /\ e_work = "returned" /\ s_pc = "active"

Returned == e_main \in {"returned", "raised"}

\* C22: run_concurrently around a fun whose threads stream output does not
\* deadlock: under fair scheduling every thread waiting for stdout_lock
\* eventually holds it, run_concurrently eventually gives control back, and
\* from then on stdout_lock is free, no paused scope is active and sys.stdout
\* is the real stream; also when the edit task fails.
C22_NestedLayersDoNotDeadlock ==
    /\ \A w \in Writers : WriterWaits(w) ~> (o_lock = w)
    /\ EditorWaits ~> (o_lock = "editor")
    /\ MainWaits ~> (o_lock = "main")
    /\ (e_main = "start") ~> Returned
    /\ [](Returned =>
            /\ o_lock = "free"
            /\ ~ScopeOpen
            /\ sys_stdout = "real"
            /\ \A w \in Writers : ~WriterWaits(w))

\* the edit task failed, so the calling thread left the scope itself, and
\* run_concurrently returned with a streamed chunk in the flushed block
C22_Witness ==
    /\ e_main = "returned"
    /\ e_editor = "failed"
    /\ s_closer = "main"
    /\ o_lock = "free"
    /\ \E i \in 1..Len(o_real) : o_real[i].part = "chunk" /\ InBlock(i)

-----------------------------------------------------------------------------
(* _should_open_editor: the parent command line against the allow-list.   *)
(* A command line is a sequence of tokens; an outcome is "true", "false"  *)
(* or "raised" (an exception leaves the function).                        *)

Bool(v) == IF v THEN "true" ELSE "false"

\* allowed_flag(...)   (editor.py:107-117, 122)
allowed_flags ==
    {"-a", "--all", "-p", "--patch", "--reset-author", "--branch",
     "--allow-empty", "--allow-empty-message", "--no-post-rewrite",
     "--status", "-i", "--include", "-o", "--only", "-q", "--quiet",
     "--pathspec-file-nul"}

\* allowed_option(...)   (editor.py:118-121)
allowed_options == {"--author", "--date", "--cleanup", "--pathspec-from-file"}

\* options of git commit the parser is not taught   (editor.py:124-146)
DisallowedTokens ==
    {"-m", "-F", "-C", "-c", "--amend", "--fixup", "--squash", "--dry-run",
     "-e", "--edit", "--no-edit"}

\* argparse: the token starts with a prefix character.  Every other token of
\* the model is a plain word.
starts_with_dash(tok) ==
    tok \in allowed_flags \cup allowed_options \cup DisallowedTokens

\* argparse consume_positionals: nargs='+' takes the whole run of plain
\* words starting at i; the result is the index after the run
positionals_end(args, i) ==
    LET dashed == {j \in i..Len(args) : starts_with_dash(args[j])}
    IN IF dashed = {} THEN Len(args) + 1
       ELSE CHOOSE j \in dashed : \A k \in dashed : j <= k

\* argparse parse_args from index i on; consumed says that the positional
\* `pathspec` has taken its words already.  TRUE iff error() is never called.
RECURSIVE parse_from(_, _, _)
parse_from(args, i, consumed) ==
    IF i > Len(args) THEN consumed
    ELSE IF ~starts_with_dash(args[i])
         THEN IF consumed THEN FALSE
              ELSE parse_from(args, positionals_end(args, i), TRUE)
    ELSE IF args[i] \in allowed_flags
         THEN parse_from(args, i + 1, consumed)
    ELSE IF args[i] \in allowed_options
         THEN IF i + 1 <= Len(args) /\ ~starts_with_dash(args[i + 1])
              THEN parse_from(args, i + 2, consumed)
              ELSE FALSE
    ELSE FALSE

\* parser.parse_args(...) does not call error()
parse_args(args) == parse_from(args, 1, FALSE)

\* the grammar given only the tokens after 'git commit'
parse_args_input_tail(git_invocation) ==
    SubSeq(git_invocation, 3, Len(git_invocation))

\* the argument of parser.parse_args   (editor.py:149)
parse_args_input(git_invocation) == git_invocation

\* git_invocation[:2]
first_two(git_invocation) ==
    SubSeq(git_invocation, 1, Min(2, Len(git_invocation)))

\* _should_open_editor(), given what psutil reports about the parent
should_open_editor(parent) ==
    IF parent.state # "ok" THEN "raised"
    ELSE IF first_two(parent.cmdline) # <<"git", "commit">> THEN "false"
    ELSE Bool(parse_args(parse_args_input(parent.cmdline)))

\* tokens following 'git commit' in the probed command lines
ArgTokens == {"-a", "-q", "--author", "bob", "-m", "--amend", "path/to/file"}

\* command lines of the parent process
Cmdlines ==
    { <<"git", "commit">> \o t : t \in SeqsUpTo(ArgTokens, MaxCommitArgs) }
    \cup { <<"git", "commit", t>> : t \in DisallowedTokens \cup allowed_flags }
    \cup { <<"git", "commit", "-m", "msg">>,
           <<"git", "commit", "-a", "-q", "path/to/file">>,
           <<>>, <<"git">>, <<"git", "status">>, <<"commit", "git">>,
           <<"git", "status", "-a">>, <<"git", "push", "path/to/file">> }

\* what psutil.Process().parent() gives: a process with a command line, no
\* process (None), or a process that cannot be inspected
Parents ==
    { [state |-> "ok", cmdline |-> c] : c \in Cmdlines }
    \cup { [state |-> "none", cmdline |-> <<>>],
           [state |-> "denied", cmdline |-> <<>>] }

InitParse ==
    /\ PartitionIdle
    /\ XargsIdle
    /\ OutputIdle
    /\ EditorIdle
    /\ StreamIdle
    /\ d_pc = "probe"
    /\ d_parent \in Parents
    /\ d_open = "none"
    /\ d_in = "none"
    /\ d_run = "none"
    /\ d_clean = "none"
    /\ d_draft = NoFile
    /\ d_expired = NoFile
    /\ d_did = "none"
    /\ d_count = 0

\* one call of _should_open_editor()
ShouldOpenEditor ==
    /\ d_pc = "probe"
    /\ d_open' = should_open_editor(d_parent)
    /\ d_pc' = "probed"
    /\ UNCHANGED <<d_parent, d_in, d_run, d_clean, d_draft, d_expired, d_did,
                   d_count, pvars, xvars, ovars, evars, gvars>>

NextParse == ShouldOpenEditor

SpecParse == InitParse /\ [][NextParse]_vars

-----------------------------------------------------------------------------
(* Claims about _should_open_editor *)

\* the probe has run on a command line
Probed == d_pc = "probed" /\ d_parent.state = "ok"

\* C12: _should_open_editor is false when the first two tokens are not
\* 'git','commit' and false when a token after them is not on the allow-list;
\* it is true for git commit -a -q path/to/file, false for git commit -m msg
\* and false for git status.
C12_AllowListDecision ==
    Probed =>
        LET c == d_parent.cmdline IN
        /\ first_two(c) # <<"git", "commit">> => d_open = "false"
        /\ (\E k \in 3..Len(c) : c[k] \in DisallowedTokens) => d_open = "false"
        /\ c = <<"git", "commit", "-a", "-q", "path/to/file">> => d_open = "true"
        /\ c = <<"git", "commit", "-m", "msg">> => d_open = "false"
        /\ c = <<"git", "status">> => d_open = "false"

\* position k of c holds the value of an allowed option
IsOptionValue(c, k) ==
    /\ k > 1
    /\ c[k - 1] \in allowed_options
    /\ ~starts_with_dash(c[k])

\* no token after 'git commit' is a pathspec
NoPathspec(c) ==
    \A k \in 3..Len(c) : starts_with_dash(c[k]) \/ IsOptionValue(c, k)

\* every token after 'git commit' is an allowed flag, or an allowed option
\* followed by its value, or such a value
OnlyAllowedOptions(c) ==
    \A k \in 3..Len(c) :
        \/ c[k] \in allowed_flags
        \/ c[k] \in allowed_options /\ k < Len(c) /\ ~starts_with_dash(c[k + 1])
        \/ IsOptionValue(c, k)

-----------------------------------------------------------------------------
(* should_run_concurrently, should_clean_draft and clean_draft over a       *)
(* sequence of hook invocations                                             *)

\* git.get_editor_script_path()
EditorScriptPath == ".git/hooks/pre-commit-editor"

\* platform.system: the attribute the code compares, a function object that
\* is never called   (editor.py:40, 73)
platform_system == "<function system>"

\* platform.system != 'Windows'; system is what platform.system() would return
not_windows(system) == platform_system # "Windows"

\* x and y, where evaluating x or y may raise
And(x, y) == IF x = "true" THEN y ELSE x

\* not x, where evaluating x may raise
Not(x) == IF x = "raised" THEN "raised" ELSE Bool(x = "false")

\* _is_editor_script_configured(), given the outcome of `git var GIT_EDITOR`
\* and whether the editor script is in place
is_editor_script_configured(editor) ==
    IF editor.git_var = "failed" THEN "raised"
    ELSE Bool(/\ editor.words # <<>>
              /\ editor.words[1] = EditorScriptPath
              /\ editor.script_exists)

\* should_run_concurrently(hook_stage)
should_run_concurrently(in) ==
    And(Bool(in.stage = "commit"),
        And(is_editor_script_configured(in.editor),
            And(should_open_editor(in.parent),
                Bool(not_windows(in.system)))))

\* a clean-up decision taken when the editor is to be opened
should_clean_draft_when_open(in, draft) ==
    And(Bool(in.stage = "commit"),
        And(is_editor_script_configured(in.editor),
            And(should_open_editor(in.parent),
                And(Bool(draft # NoFile),
                    Bool(not_windows(in.system))))))

\* should_clean_draft(hook_stage); draft is the file at the draft path
should_clean_draft(in, draft) ==
    And(Bool(in.stage = "commit"),
        And(is_editor_script_configured(in.editor),
            And(Not(should_open_editor(in.parent)),
                And(Bool(draft # NoFile),
                    Bool(not_windows(in.system))))))

\* Path.rename: replaces the target, except on Windows where an existing
\* target makes it raise FileExistsError
rename_raises(system, expired) == system = "Windows" /\ expired # NoFile

\* repository-local editor as `git var GIT_EDITOR` reports it
Editors ==
    { [git_var |-> "failed", words |-> <<>>, script_exists |-> TRUE],
      [git_var |-> "ok", words |-> <<>>, script_exists |-> TRUE],
      [git_var |-> "ok", words |-> <<"vim">>, script_exists |-> TRUE],
      [git_var |-> "ok", words |-> <<EditorScriptPath>>, script_exists |-> TRUE],
      [git_var |-> "ok", words |-> <<EditorScriptPath>>, script_exists |-> FALSE] }

\* parent processes met by the hook invocations
InvocationParents ==
    { [state |-> "ok", cmdline |-> <<"git", "commit">>],
      [state |-> "ok", cmdline |-> <<"git", "commit", "-m", "msg">>],
      [state |-> "ok", cmdline |-> <<"git", "status">>],
      [state |-> "ok", cmdline |-> <<>>],
      [state |-> "none", cmdline |-> <<>>],
      [state |-> "denied", cmdline |-> <<>>] }

\* hook stages
Stages == {"commit", "push"}

\* values of platform.system()
Systems == {"Linux", "Windows"}

\* outputs of `git status`
Statuses == { GitStatus, << <<>> >> }

\* the editor process saves the message "fix bug" as the first line
user_edit(draft) == << <<"fix bug">> >> \o Tail(draft)

\* a draft with comment lines around the message and no final newline
AnnotatedDraft ==
    << <<"#", " note">>, <<"fix bug">>, <<"#", " old status">>, <<"more">> >>

InitCommit ==
    /\ PartitionIdle
    /\ XargsIdle
    /\ OutputIdle
    /\ EditorIdle
    /\ StreamIdle
    /\ d_pc = "idle"
    /\ d_in = "none"
    /\ d_run = "none"
    /\ d_clean = "none"
    /\ d_draft \in Drafts \/ d_draft = AnnotatedDraft
    /\ d_expired \in Drafts
    /\ d_did = "none"
    /\ d_count = 0
    /\ d_parent = "none"
    /\ d_open = "none"

CommitFrame == UNCHANGED <<d_parent, d_open, pvars, xvars, ovars, evars, gvars>>

\* a hook invocation evaluates should_run_concurrently and should_clean_draft
Decide ==
    /\ d_pc = "idle"
    /\ d_count < MaxInvocations
    /\ \E stage \in Stages, editor \in Editors, parent \in InvocationParents,
          system \in Systems :
          LET in == [stage |-> stage, editor |-> editor, parent |-> parent,
                     system |-> system, draft_before |-> d_draft,
                     expired_before |-> d_expired]
          IN /\ d_in' = in
             /\ d_run' = should_run_concurrently(in)
             /\ d_clean' = should_clean_draft(in, d_draft)
    /\ d_pc' = "decided"
    /\ UNCHANGED <<d_draft, d_expired, d_did, d_count>>
    /\ CommitFrame

\* an exception of the eligibility functions ends the invocation
DecisionRaises ==
    /\ d_pc = "decided"
    /\ d_run = "raised" \/ (d_run = "false" /\ d_clean = "raised")
    /\ d_did' = "raised"
    /\ d_pc' = "idle"
    /\ d_count' = d_count + 1
    /\ UNCHANGED <<d_in, d_run, d_clean, d_draft, d_expired>>
    /\ CommitFrame

\* run_concurrently: the edit step creates or refreshes the draft
RunConcurrently ==
    /\ d_pc = "decided"
    /\ d_run = "true"
    /\ \E status \in Statuses :
          d_draft' = edit_draft(d_draft, get_commit_message_template(status))
    /\ d_pc' = "editing"
    /\ UNCHANGED <<d_in, d_run, d_clean, d_expired, d_did, d_count>>
    /\ CommitFrame

\* the editor process ends, having saved a message or not (or it never ran)
EditorEnds ==
    /\ d_pc = "editing"
    /\ d_draft' \in {d_draft, user_edit(d_draft)}
    /\ d_did' = "ran"
    /\ d_pc' = "idle"
    /\ d_count' = d_count + 1
    /\ UNCHANGED <<d_in, d_run, d_clean, d_expired>>
    /\ CommitFrame

\* clean_draft(): COMMIT_MESSAGE_DRAFT_PATH.rename(COMMIT_MESSAGE_EXPIRED_DRAFT_PATH)
CleanDraft ==
    /\ d_pc = "decided"
    /\ d_run = "false"
    /\ d_clean = "true"
    /\ IF rename_raises(d_in.system, d_expired)
       THEN /\ d_did' = "raised"
            /\ UNCHANGED <<d_draft, d_expired>>
       ELSE /\ d_did' = "cleaned"
            /\ d_expired' = d_draft
            /\ d_draft' = NoFile
    /\ d_pc' = "idle"
    /\ d_count' = d_count + 1
    /\ UNCHANGED <<d_in, d_run, d_clean>>
    /\ CommitFrame

\* neither function says yes: the hooks run as usual
NoOp ==
    /\ d_pc = "decided"
    /\ d_run = "false"
    /\ d_clean = "false"
    /\ d_did' = "noop"
    /\ d_pc' = "idle"
    /\ d_count' = d_count + 1
    /\ UNCHANGED <<d_in, d_run, d_clean, d_draft, d_expired>>
    /\ CommitFrame

NextCommit ==
    \/ Decide
    \/ DecisionRaises
    \/ RunConcurrently
    \/ EditorEnds
    \/ CleanDraft
    \/ NoOp

SpecCommit == InitCommit /\ [][NextCommit]_vars


-----------------------------------------------------------------------------
(* Claims about eligibility and the draft *)

\* the editor script is the repository-local editor
Configured(in) == is_editor_script_configured(in.editor) = "true"

\* C14: on Windows should_run_concurrently and should_clean_draft are never
\* true, whatever the stage, editor configuration, parent command line and
\* draft; and they are false when the stage is not 'commit' or the
\* repository-local editor is not the launch script.
C14_ExcludedPlatformIsNoOp ==
    d_pc = "decided" =>
        /\ d_in.system = "Windows" => (d_run # "true" /\ d_clean # "true")
        /\ d_in.stage # "commit" => (d_run = "false" /\ d_clean = "false")
        /\ is_editor_script_configured(d_in.editor) = "false" =>
               (d_run = "false" /\ d_clean = "false")

\* the eligibility probe of the invocation fails
ProbeFails(in) ==
    \/ in.parent.state # "ok"
    \/ in.parent.cmdline = <<>>
    \/ in.editor.git_var = "failed"

\* C15: a failure of the eligibility probe makes should_run_concurrently
\* return false, and neither should_run_concurrently nor should_clean_draft
\* ever raises.
C15_ProbeFailuresFailClosed ==
    d_pc = "decided" =>
        /\ d_run # "raised"
        /\ d_clean # "raised"
        /\ ProbeFails(d_in) => d_run = "false"

\* a text as one string: its lines separated by "\n"
RECURSIVE Flat(_)
Flat(text) ==
    IF Len(text) = 1 THEN text[1]
    ELSE text[1] \o <<"\n">> \o Flat(Tail(text))

\* the lines of draft that do not begin with '#', in order, put together
\* again with "\n" between them
KeptFlat(draft) ==
    LET lines == splitlines(draft)
        keptIdx == {k \in 1..Len(lines) : lines[k] = <<>> \/ lines[k][1] # "#"}
        n == Cardinality(keptIdx)
        nth(j) == CHOOSE k \in keptIdx :
                      Cardinality({m \in keptIdx : m <= k}) = j
    IN IF n = 0 THEN <<>> ELSE Flat([j \in 1..n |-> lines[nth(j)]])

\* C16: the edit step makes the draft exactly the template when there was
\* none; otherwise the new draft is the old draft's lines not beginning with
\* '#', in their order, followed by the new template ('fix bug' + '# old
\* status' becomes 'fix bug' followed by the template).
C16_DraftCreatedOrRefreshed ==
    d_pc = "editing" =>
        \E status \in Statuses :
            LET template == get_commit_message_template(status)
                before == d_in.draft_before
            IN /\ Flat(template) =
                      Flat(COMMIT_MESSAGE_HEADER) \o
                      (IF splitlines(status) = <<>> THEN <<>>
                       ELSE Flat([k \in 1..Len(splitlines(status)) |->
                                     <<"#", " ">> \o splitlines(status)[k]]))
               /\ IF before = NoFile
                  THEN d_draft = template
                  ELSE Flat(d_draft) = KeptFlat(before) \o Flat(template)
               /\ (before # NoFile /\ before[1] = <<"fix bug">>
                   /\ before[2] = <<"#", " old status">>) =>
                      d_draft = << <<"fix bug">> >> \o Tail(template)

\* the draft 'fix bug' + '# old status' has been refreshed
C16_Witness ==
    /\ d_pc = "editing"
    /\ d_in.draft_before # NoFile
    /\ d_in.draft_before[2] = <<"#", " old status">>
    /\ d_draft[1] = <<"fix bug">>
    /\ Len(d_draft) = 6

-----------------------------------------------------------------------------
(* Claims about the workers of xargs() *)

\* C18: during one xargs() call the number of partition subprocesses running
\* at the same time never exceeds min(partition_count, target_concurrency);
\* every partition is executed exactly once; and when that minimum is 1 the
\* partitions run one after another in submission order, each starting only
\* after the previous one has finished.
C18_BoundedWorkersEachPartitionOnce ==
    x_pc \in {"mapping", "returned"} =>
        LET n == Len(x_partitions)
            bound == Min(n, x_in.target_concurrency)
        IN /\ Cardinality(Running) <= bound
           /\ \A k \in 1..Len(x_completion) : x_completion[k] \in 1..n
           /\ \A k, l \in 1..Len(x_completion) :
                  x_completion[k] = x_completion[l] => k = l
           /\ \A i \in 1..n :
                  x_task[i] = "done" <=>
                      \E k \in 1..Len(x_completion) : x_completion[k] = i
           /\ x_pc = "returned" => \A i \in 1..n : x_task[i] = "done"
           /\ bound = 1 =>
                  /\ \A i \in 1..n : x_task[i] # "pending" =>
                         \A j \in 1..(i - 1) : x_task[j] = "done"
                  /\ \A k \in 1..Len(x_completion) : x_completion[k] = k

\* three partitions, two workers: two subprocesses run and the third waits
C18_Witness ==
    /\ x_pc = "mapping"
    /\ Len(x_partitions) = 3
    /\ x_in.target_concurrency = 2
    /\ Cardinality(Running) = 2
    /\ \E i \in 1..3 : x_task[i] = "pending"


-----------------------------------------------------------------------------
(* stream_subprocess_output: the generator reading the pipe of a subprocess. *)
(* A returncode is <<>> for None and <<code>> for an exit code; the bytes    *)
(* the subprocess writes are numbered 1, 2, ... in the order written.        *)

\* the loop ends after the first read that follows the end of the process
after_read_stop_when_done(chunk, process_done) ==
    IF process_done THEN "finally" ELSE "poll"

\* where the generator goes after read1: `if chunk: yield chunk, None` and
\* round the loop again, `else: if process_done: break`
after_read(chunk, process_done) ==
    IF chunk # <<>> THEN "poll"
    ELSE IF process_done THEN "finally"
    ELSE "poll"

\* proc.stdout.read1(1024): at most ChunkSize of the bytes available
read1(pipe) == SubSeq(pipe, 1, Min(ChunkSize, Len(pipe)))

\* select.select([proc.stdout], [], [], 0.1) reports the pipe readable: there
\* is data, or every write end is closed
readable == g_pipe # <<>> \/ g_proc \in {"closed", "exited"}

InitStream ==
    /\ PartitionIdle
    /\ XargsIdle
    /\ OutputIdle
    /\ EditorIdle
    /\ DecisionIdle
    /\ g_pc = "poll"
    /\ g_done = FALSE
    /\ g_items = <<>>
    /\ g_proc = "open"
    /\ g_pipe = <<>>
    /\ g_written = <<>>
    /\ g_rc = <<>>

StreamFrame == UNCHANGED <<pvars, xvars, ovars, evars, dvars>>

\* the subprocess writes one byte to its stdout or stderr
ProcWrite ==
    /\ g_proc = "open"
    /\ Len(g_written) < MaxBytes
    /\ g_pipe' = Append(g_pipe, Len(g_written) + 1)
    /\ g_written' = Append(g_written, Len(g_written) + 1)
    /\ UNCHANGED <<g_pc, g_done, g_items, g_proc, g_rc>>
    /\ StreamFrame

\* the subprocess closes its output and keeps running
ProcClose ==
    /\ g_proc = "open"
    /\ g_proc' = "closed"
    /\ UNCHANGED <<g_pc, g_done, g_items, g_pipe, g_written, g_rc>>
    /\ StreamFrame

\* the subprocess terminates
ProcExit ==
    /\ g_proc \in {"open", "closed"}
    /\ \E rc \in RetCodes : g_rc' = <<rc>>
    /\ g_proc' = "exited"
    /\ UNCHANGED <<g_pc, g_done, g_items, g_pipe, g_written>>
    /\ StreamFrame

\* process_done = (proc.poll() is not None)
Poll ==
    /\ g_pc = "poll"
    /\ g_done' = (g_proc = "exited")
    /\ g_pc' = IF g_proc = "exited" THEN "read" ELSE "select"
    /\ UNCHANGED <<g_items, g_proc, g_pipe, g_written, g_rc>>
    /\ StreamFrame

\* select reports the pipe ready
SelectReady ==
    /\ g_pc = "select"
    /\ readable
    /\ g_pc' = "read"
    /\ UNCHANGED <<g_done, g_items, g_proc, g_pipe, g_written, g_rc>>
    /\ StreamFrame

\* select times out: `if not ready: continue`
SelectTimeout ==
    /\ g_pc = "select"
    /\ ~readable
    /\ g_pc' = "poll"
    /\ UNCHANGED <<g_done, g_items, g_proc, g_pipe, g_written, g_rc>>
    /\ StreamFrame

\* chunk = proc.stdout.read1(1024), then yield, loop or break
Read ==
    /\ g_pc = "read"
    /\ readable
    /\ LET chunk == read1(g_pipe)
       IN /\ g_pipe' = SubSeq(g_pipe, Len(chunk) + 1, Len(g_pipe))
          /\ g_items' = IF chunk # <<>>
                        THEN Append(g_items, [chunk |-> chunk, returncode |-> <<>>])
                        ELSE g_items
          /\ g_pc' = after_read(chunk, g_done)
    /\ UNCHANGED <<g_done, g_proc, g_written, g_rc>>
    /\ StreamFrame

\* finally: proc.stdout.close(); proc.wait(); yield b'', proc.returncode
Finally ==
    /\ g_pc = "finally"
    /\ g_proc = "exited"
    /\ g_items' = Append(g_items, [chunk |-> <<>>, returncode |-> g_rc])
    /\ g_pc' = "finished"
    /\ UNCHANGED <<g_done, g_proc, g_pipe, g_written, g_rc>>
    /\ StreamFrame

\* the steps of the generator
Reader == Poll \/ SelectReady \/ SelectTimeout \/ Read \/ Finally

NextStream ==
    \/ ProcWrite
    \/ ProcClose
    \/ ProcExit
    \/ Poll
    \/ SelectReady
    \/ SelectTimeout
    \/ Read
    \/ Finally

\* the thread iterating the generator keeps running
SpecStream == InitStream /\ [][NextStream]_vars /\ WF_vars(Reader)

-----------------------------------------------------------------------------
(* Claims about stream_subprocess_output *)

\* the chunks yielded so far, put together
Yielded == Concat([k \in 1..Len(g_items) |-> g_items[k].chunk])

\* what holds of the yielded items in every state
StreamItemsRight ==
    /\ Yielded \o g_pipe = g_written
    /\ \A k \in 1..(Len(g_items) - 1) : g_items[k].returncode = <<>>
    /\ g_pc # "finished" =>
           \A k \in 1..Len(g_items) : g_items[k].returncode = <<>>
    /\ g_pc = "finished" =>
           /\ Yielded = g_written
           /\ g_proc = "exited"
           /\ g_items[Len(g_items)] = [chunk |-> <<>>, returncode |-> g_rc]
           /\ g_rc # <<>>

\* C19: in every interleaving of the subprocess writing, closing its output
\* and terminating with the reader's poll, readiness wait and read, the
\* yielded chunks put together are exactly what the subprocess wrote, in
\* order; every item but the last carries no exit code; the last item is an
\* empty chunk with the exit code; and once the subprocess has terminated and
\* its output is exhausted the generator finishes.
C19_StreamYieldsEverythingThenExitCode ==
    /\ []StreamItemsRight
    /\ (g_proc = "exited" /\ g_pipe = <<>>) ~> (g_pc = "finished")

\* the subprocess wrote all its bytes, some of them read only after it had
\* terminated, and the generator finished with several chunks
C19_Witness ==
    /\ g_pc = "finished"
    /\ Len(g_written) = MaxBytes
    /\ Len(g_items) >= 3
    /\ g_items[Len(g_items) - 1].chunk # <<>>


-----------------------------------------------------------------------------
(* Claims about the ways a paused scope ends *)

\* the threads that can run the exit of the scope
Closers == {"scope", "main", "editor"}

\* C20: however the paused_stdout scope of run_concurrently ends (normal end
\* of scope, early close by the editor task followed by the end of scope, an
\* exception raised inside the scope), the real stdout is restored, the scope
\* does not keep stdout_lock, and what was buffered has been written to the
\* real stream, once, as the flushed block.
C20_EveryScopeEndFlushesBuffer ==
    s_pc \in {"ended", "abandoned"} =>
        /\ sys_stdout = "real"
        /\ o_lock \notin Closers
        /\ o_buffer # <<>> =>
               /\ o_block # <<>>
               /\ o_block[2] <= Len(o_real)
               /\ SubSeq(o_real, o_block[1], o_block[2])
                      = SubSeq(o_buffer, 1, o_block[2] - o_block[1] + 1)

====
